---- MODULE Spec2Model ----
(***************************************************************************)
(* Model of the distributed cache "distributeCache" (go):                  *)
(*   - singleflight.Group.Do        (src/singleflight/singleflight.go)     *)
(*   - lru.Cache and the cache shell (same file, lines 60-277)             *)
(*   - Group.Get / load / getLocally / RegisterPeers (src/group.go)        *)
(*   - consistenthash.Map           (src/consistenthash/consistenthash.go) *)
(*   - HttpPool.Set / PickPeer      (src/http.go)                          *)
(*                                                                         *)
(* The specifications share the variables: Spec (Group.Get), SpecDb (Gets  *)
(* of the keys the backing store holds), SpecSF (Do called directly),      *)
(* SpecLive (Do under fair scheduling, one key blocked in fn), SpecReg     *)
(* (concurrent RegisterPeers), SpecLRU (an lru.Cache used directly),       *)
(* SpecRing (a consistenthash.Map) and SpecPool (an HttpPool).             *)
(*                                                                         *)
(* Goroutines are the processes of Procs.  Each mutex critical section of  *)
(* Do is one atomic step that is preceded by an explicit Lock step; the    *)
(* call of fn, the two stores of `c.val, c.err = fn()`, wg.Done and the    *)
(* delete are separate steps, so every interleaving the Go scheduler can   *)
(* produce is a behaviour of the model.  The lazily made map (g.m == nil,  *)
(* lines 32-34) reads like the empty map and is modelled as one.           *)
(***************************************************************************)
EXTENDS Integers, Sequences, FiniteSets, TLC

(* ---- bounds of the model ---- *)
NumProcs == 2
MaxCalls == 2

Procs == 1..NumProcs
NoProc == 0
NoCall == 0

(* keys used by the direct callers of Do *)
SFKeys == {"x", "y"}

(* Go's zero values of call.val (any) and call.err (error) *)
NilVal == "nil"
NilErr == "nil"
SomeErr == "err"

VARIABLES
  pc,        \* pc[p]: position of goroutine p
  key,       \* key[p]: the key argument of p's current call
  caller,    \* caller[p]: who called Do ("test": a direct caller, "load": Group.load)
  mu,        \* singleflight.Group.mu: the goroutine holding it, or NoProc
  m,         \* singleflight.Group.m: key -> call (index into calls)
  calls,     \* heap of call objects, in allocation order
  c,         \* c[p]: the local variable c of Do
  fnres,     \* fnres[p]: the pair fn returned, before it is stored in c
  res,       \* res[p]: the pair p's call returned
  callCounter, \* number of executions of the direct callers' fn so far
  nCalls,    \* invocations so far (bounded by MaxCalls)
  hist,      \* hist[p]: history of p's current call (for stating the claims)
  mainCache, \* Group.mainCache: [cacheBytes, lru]
  peers,     \* Group.peers: the registered PeerPicker, or NoPicker
  reg,       \* reg[r]: position and argument of the goroutine r calling RegisterPeers
  stored,    \* the pickers written to Group.peers so far, in order
  lc,        \* an lru.Cache used directly: [maxBytes, usedBytes, ll, cache, ...]
  ops,       \* the operations made on lc so far, with what each returned
  ring,      \* a consistenthash.Map: [replicas, keys, hashMap]
  added,     \* the node ids passed to Map.Add so far, in order
  got,       \* the last Map.Get: [key, node], or <<>>
  hp,        \* an HttpPool: [self, peersNil, peers, httpGetters]
  picks      \* what the calls of PickPeer since the last Set returned, in order

grp == <<mainCache, peers>>
regv == <<reg, stored>>
lruv == <<lc, ops>>
ringv == <<ring, added, got>>
poolv == <<hp, picks>>
aux == <<reg, stored, lc, ops, ring, added, got, hp, picks>>
sfv == <<pc, key, caller, mu, m, calls, c, fnres, res, callCounter, nCalls, hist>>
vars == <<pc, key, caller, mu, m, calls, c, fnres, res, callCounter, nCalls, hist,
          mainCache, peers, reg, stored, lc, ops, ring, added, got, hp, picks>>

(* ---- singleflight.call ---- *)

\* history of a call object (for stating the claims): the pair its fn produced, how
\* often fn ran for it, what the loader did, whether it was deleted from the map
CallHist(k) ==
  [key |-> k, out |-> <<>>, execs |-> 0, aborted |-> FALSE, removed |-> FALSE,
   peer |-> "none", back |-> "none", nPeer |-> 0, nBack |-> 0, nAdd |-> 0,
   kept |-> FALSE, emptied |-> FALSE]

\* a call created without c.wg.Add(1)
NewCallNoAdd(k) == [wg |-> 0, val |-> NilVal, err |-> NilErr, h |-> CallHist(k)]

\* new(call); c.wg.Add(1)
NewCall(k) == [wg |-> 1, val |-> NilVal, err |-> NilErr, h |-> CallHist(k)]

\* a lookup that never finds the call
LookupNone(mm, k) == NoCall

\* c, ok := g.m[key]
Lookup(mm, k) == IF k \in DOMAIN mm THEN mm[k] ELSE NoCall

\* g.m[key] = c
MapInsert(mm, k, id) == [x \in DOMAIN mm \cup {k} |-> IF x = k THEN id ELSE mm[x]]

\* a delete that leaves the entry in the map
MapDeleteNone(mm, k) == mm

\* delete(g.m, key)
MapDelete(mm, k) == [x \in DOMAIN mm \ {k} |-> mm[x]]

\* a Wait that does not block
WaitReturnsNow(cl) == TRUE

\* c.wg.Wait() returns when the counter is zero
WaitReturns(cl) == cl.wg = 0

\* c.wg.Done()
WgDone(cl) == [cl EXCEPT !.wg = cl.wg - 1]

InFlight(p) == pc[p] \notin {"idle", "done", "panicked"}

\* history of a goroutine's current call: did it join a call or run fn, the
\* goroutines whose calls overlapped it, the call of its key that was already complete
\* (fn returned, wg.Done called) when it was invoked, whether the call it joined was
\* already deleted, did Get miss or hit the cache, was the key cached at the lookup
EmptyHist == [joined |-> FALSE, ran |-> FALSE, conc |-> {}, late |-> NoCall,
              gone |-> FALSE, miss |-> FALSE, hit |-> FALSE, warm |-> FALSE]

\* the history kept when p invokes a call on key k
Invoked(p, k) ==
  LET fl == {q \in Procs : InFlight(q)}
      cur == Lookup(m, k)
  IN [q \in Procs |->
        IF q = p
          THEN [EmptyHist EXCEPT !.conc = fl,
                  !.late = IF cur # NoCall /\ calls[cur].h.out # <<>> /\ calls[cur].wg = 0
                            THEN cur ELSE NoCall]
          ELSE IF q \in fl THEN [hist[q] EXCEPT !.conc = @ \cup {p}]
               ELSE [hist[q] EXCEPT !.conc = @ \ {p}]]

(* ---- Do: singleflight.go 30-58 ---- *)

\* a direct caller invokes g.Do(k, fn)
TestCall(p, k) ==
  /\ pc[p] \in {"idle", "done", "panicked"}
  /\ nCalls < MaxCalls
  /\ nCalls' = nCalls + 1
  /\ pc' = [pc EXCEPT ![p] = "do_lock"]
  /\ key' = [key EXCEPT ![p] = k]
  /\ caller' = [caller EXCEPT ![p] = "test"]
  /\ c' = [c EXCEPT ![p] = NoCall]
  /\ res' = [res EXCEPT ![p] = <<>>]
  /\ hist' = Invoked(p, k)
  /\ UNCHANGED <<mu, m, calls, fnres, callCounter, grp, aux>>

\* line 31: g.mu.Lock()
DoLock(p) ==
  /\ pc[p] = "do_lock"
  /\ mu = NoProc
  /\ mu' = p
  /\ pc' = [pc EXCEPT ![p] = "do_lookup"]
  /\ UNCHANGED <<key, caller, m, calls, c, fnres, res, callCounter, nCalls, hist, grp, aux>>

\* lines 35-37: the call is in the map: unlock and go waiting
DoJoin(p) ==
  /\ pc[p] = "do_lookup"
  /\ mu = p
  /\ Lookup(m, key[p]) # NoCall
  /\ c' = [c EXCEPT ![p] = Lookup(m, key[p])]
  /\ mu' = NoProc
  /\ pc' = [pc EXCEPT ![p] = "do_wait"]
  /\ hist' = [hist EXCEPT ![p].joined = TRUE,
                          ![p].gone = calls[Lookup(m, key[p])].h.removed]
  /\ UNCHANGED <<key, caller, m, calls, fnres, res, callCounter, nCalls, grp, aux>>

\* a Do that keeps g.mu locked while it goes on to run fn
DoCreateLocked(p) ==
  /\ pc[p] = "do_lookup"
  /\ mu = p
  /\ Lookup(m, key[p]) = NoCall
  /\ calls' = Append(calls, NewCall(key[p]))
  /\ c' = [c EXCEPT ![p] = Len(calls) + 1]
  /\ m' = MapInsert(m, key[p], Len(calls) + 1)
  /\ pc' = [pc EXCEPT ![p] = "do_fn"]
  /\ UNCHANGED <<key, caller, mu, fnres, res, callCounter, nCalls, hist, grp, aux>>

\* lines 42-45: no call in the map: create one, register it, unlock
DoCreate(p) ==
  /\ pc[p] = "do_lookup"
  /\ mu = p
  /\ Lookup(m, key[p]) = NoCall
  /\ calls' = Append(calls, NewCall(key[p]))
  /\ c' = [c EXCEPT ![p] = Len(calls) + 1]
  /\ m' = MapInsert(m, key[p], Len(calls) + 1)
  /\ mu' = NoProc
  /\ pc' = [pc EXCEPT ![p] = "do_fn"]
  /\ UNCHANGED <<key, caller, fnres, res, callCounter, nCalls, hist, grp, aux>>

\* what the caller of Do returns: load, group.go 100-103, returns viewi.(ByteView), nil
\* when err == nil and its zero-valued named result with err otherwise
Returned(p, pair) ==
  IF caller[p] = "load" /\ pair[2] # NilErr THEN <<"", pair[2]>> ELSE pair

\* lines 38-39: c.wg.Wait(); return c.val, c.err
DoWaitReturn(p) ==
  /\ pc[p] = "do_wait"
  /\ WaitReturns(calls[c[p]])
  /\ res' = [res EXCEPT ![p] = Returned(p, <<calls[c[p]].val, calls[c[p]].err>>)]
  /\ pc' = [pc EXCEPT ![p] = "done"]
  /\ UNCHANGED <<key, caller, mu, m, calls, c, fnres, callCounter, nCalls, hist, grp, aux>>

\* line 48, first store: c.val = (value of fn())
DoStoreVal(p) ==
  /\ pc[p] = "do_store_val"
  /\ calls' = [calls EXCEPT ![c[p]].val = fnres[p][1]]
  /\ pc' = [pc EXCEPT ![p] = "do_store_err"]
  /\ UNCHANGED <<key, caller, mu, m, c, fnres, res, callCounter, nCalls, hist, grp, aux>>

\* line 48, second store: c.err = (error of fn())
DoStoreErr(p) ==
  /\ pc[p] = "do_store_err"
  /\ calls' = [calls EXCEPT ![c[p]].err = fnres[p][2]]
  /\ fnres' = [fnres EXCEPT ![p] = <<>>]
  /\ pc' = [pc EXCEPT ![p] = "do_done"]
  /\ UNCHANGED <<key, caller, mu, m, c, res, callCounter, nCalls, hist, grp, aux>>

\* line 49: c.wg.Done()
DoDone(p) ==
  /\ pc[p] = "do_done"
  /\ calls' = [calls EXCEPT ![c[p]] = WgDone(@)]
  /\ pc' = [pc EXCEPT ![p] = "do_lock2"]
  /\ UNCHANGED <<key, caller, mu, m, c, fnres, res, callCounter, nCalls, hist, grp, aux>>

\* line 52: g.mu.Lock()
DoLock2(p) ==
  /\ pc[p] = "do_lock2"
  /\ mu = NoProc
  /\ mu' = p
  /\ pc' = [pc EXCEPT ![p] = "do_delete"]
  /\ UNCHANGED <<key, caller, m, calls, c, fnres, res, callCounter, nCalls, hist, grp, aux>>

\* lines 53-57: delete(g.m, key); g.mu.Unlock(); return c.val, c.err
DoDeleteReturn(p) ==
  /\ pc[p] = "do_delete"
  /\ mu = p
  /\ m' = MapDelete(m, key[p])
  /\ calls' = [calls EXCEPT ![c[p]].h.removed = TRUE]
  /\ mu' = NoProc
  /\ res' = [res EXCEPT ![p] = Returned(p, <<calls[c[p]].val, calls[c[p]].err>>)]
  /\ pc' = [pc EXCEPT ![p] = "done"]
  /\ UNCHANGED <<key, caller, c, fnres, callCounter, nCalls, hist, grp, aux>>

(* ---- the fn of the direct callers: increments a counter, returns its value ---- *)
(* (a value of type any that holds an int is written as its decimal string, so   *)
(* that it can be compared with the nil value and with the bytes of a view)      *)

TestFnBegin(p) ==
  /\ pc[p] = "do_fn"
  /\ caller[p] = "test"
  /\ callCounter' = callCounter + 1
  /\ fnres' = [fnres EXCEPT ![p] = <<ToString(callCounter + 1), NilErr>>]
  /\ hist' = [hist EXCEPT ![p].ran = TRUE]
  /\ calls' = [calls EXCEPT ![c[p]].h.execs = @ + 1]
  /\ pc' = [pc EXCEPT ![p] = "in_fn"]
  /\ UNCHANGED <<key, caller, mu, m, c, res, nCalls, grp, aux>>

\* fn returns (value, nil) or (value, err)
TestFnReturn(p) ==
  /\ pc[p] = "in_fn"
  /\ caller[p] = "test"
  /\ \E e \in {NilErr, SomeErr} :
       /\ fnres' = [fnres EXCEPT ![p] = <<fnres[p][1], e>>]
       /\ calls' = [calls EXCEPT ![c[p]].h.out = <<fnres[p][1], e>>]
  /\ pc' = [pc EXCEPT ![p] = "do_store_val"]
  /\ UNCHANGED <<key, caller, mu, m, c, res, callCounter, nCalls, hist, grp, aux>>

\* fn panics: Do has no deferred cleanup, the goroutine unwinds out of Do
TestFnPanic(p) ==
  /\ pc[p] = "in_fn"
  /\ caller[p] = "test"
  /\ pc' = [pc EXCEPT ![p] = "panicked"]
  /\ calls' = [calls EXCEPT ![c[p]].h.aborted = TRUE]
  /\ UNCHANGED <<key, caller, mu, m, c, fnres, res, callCounter, nCalls, hist, grp, aux>>

DoStep(p) ==
  \/ DoLock(p)
  \/ DoJoin(p)
  \/ DoCreate(p)
  \/ DoWaitReturn(p)
  \/ DoStoreVal(p)
  \/ DoStoreErr(p)
  \/ DoDone(p)
  \/ DoLock2(p)
  \/ DoDeleteReturn(p)

(* ---- lru.Cache: singleflight.go 60-159 ---- *)

\* ByteView.Len(): the number of bytes of the view
ByteViewLen(v) == Len(v)

\* int64(len(kv.key)) + int64(kv.value.Len())
EntrySize(e) == Len(e.key) + ByteViewLen(e.value)

\* NewCache(maxBytes, onEvicted), lines 96-103.  onEvicted: is the callback non-nil;
\* evlog: the <<key, value>> pairs the callback was invoked with, in order
NewCache(maxBytes, onEvicted) ==
  [maxBytes |-> maxBytes, usedBytes |-> 0, ll |-> <<>>, cache |-> {},
   onEvicted |-> onEvicted, evlog |-> <<>>]

\* position in ll of the element c.cache[key]
ElemOf(l, k) == CHOOSE i \in 1..Len(l.ll) : l.ll[i].key = k

\* c.ll.MoveToFront(ele)
MoveToFront(ll, i) ==
  <<ll[i]>> \o SubSeq(ll, 1, i - 1) \o SubSeq(ll, i + 1, Len(ll))

\* a Get that leaves the list in its order
LruGetNoMove(l, k) ==
  IF k \in l.cache
    THEN [lru |-> l, value |-> l.ll[ElemOf(l, k)].value, ok |-> TRUE]
    ELSE [lru |-> l, value |-> "", ok |-> FALSE]

\* Cache.Get, lines 110-117: [lru, value, ok]
LruGet(l, k) ==
  IF k \in l.cache
    THEN [lru |-> [l EXCEPT !.ll = MoveToFront(l.ll, ElemOf(l, k))],
          value |-> l.ll[ElemOf(l, k)].value, ok |-> TRUE]
    ELSE [lru |-> l, value |-> "", ok |-> FALSE]

\* a Remove that drops the oldest entry without telling the callback
LruRemoveSilent(l) ==
  IF Len(l.ll) > 0
    THEN LET kv == l.ll[Len(l.ll)]
         IN [l EXCEPT !.ll = SubSeq(l.ll, 1, Len(l.ll) - 1),
                      !.cache = @ \ {kv.key},
                      !.usedBytes = @ - EntrySize(kv)]
    ELSE l

\* Cache.Remove, lines 121-132: drops c.ll.Back() and calls OnEvicted if it is set
LruRemove(l) ==
  IF Len(l.ll) > 0
    THEN LET kv == l.ll[Len(l.ll)]
         IN [l EXCEPT !.ll = SubSeq(l.ll, 1, Len(l.ll) - 1),
                      !.cache = @ \ {kv.key},
                      !.usedBytes = @ - EntrySize(kv),
                      !.evlog = IF l.onEvicted THEN Append(@, <<kv.key, kv.value>>) ELSE @]
    ELSE l

\* an eviction that removes at most one entry
EvictOnce(l) ==
  IF l.maxBytes > 0 /\ l.usedBytes >= l.maxBytes THEN LruRemove(l) ELSE l

\* an eviction loop that runs only while the bound is exceeded
RECURSIVE EvictStrict(_)
EvictStrict(l) ==
  IF l.maxBytes > 0 /\ l.usedBytes > l.maxBytes THEN EvictStrict(LruRemove(l)) ELSE l

\* Cache.Add, lines 150-153: the eviction loop
RECURSIVE Evict(_)
Evict(l) ==
  IF l.maxBytes > 0 /\ l.usedBytes >= l.maxBytes THEN Evict(LruRemove(l)) ELSE l

\* an Add that charges a new entry for its value only
LruAddNoKeyLen(l, k, v) ==
  IF k \in l.cache
    THEN LET i == ElemOf(l, k)
             moved == MoveToFront(l.ll, i)
         IN Evict([l EXCEPT !.ll = [moved EXCEPT ![1].value = v],
                            !.usedBytes = @ + ByteViewLen(v) - ByteViewLen(l.ll[i].value)])
    ELSE Evict([l EXCEPT !.ll = <<[key |-> k, value |-> v]>> \o @,
                         !.cache = @ \cup {k},
                         !.usedBytes = @ + ByteViewLen(v)])

\* Cache.Add, lines 138-154
LruAdd(l, k, v) ==
  IF k \in l.cache
    THEN LET i == ElemOf(l, k)
             moved == MoveToFront(l.ll, i)
         IN Evict([l EXCEPT !.ll = [moved EXCEPT ![1].value = v],
                            !.usedBytes = @ + ByteViewLen(v) - ByteViewLen(l.ll[i].value)])
    ELSE Evict([l EXCEPT !.ll = <<[key |-> k, value |-> v]>> \o @,
                         !.cache = @ \cup {k},
                         !.usedBytes = @ + Len(k) + ByteViewLen(v)])

(* ---- cache: singleflight.go 246-277 ---- *)

\* an add that stores nothing
CacheAddNone(mc, k, v) == mc

\* cache.add, lines 255-262 (one critical section of cache.mu); isNil: c.lru == nil;
\* the lru is made by lru.NewCache(c.cacheBytes, nil)
CacheAdd(mc, k, v) ==
  [mc EXCEPT !.isNil = FALSE,
             !.lru = LruAdd(IF mc.isNil THEN NewCache(mc.cacheBytes, FALSE) ELSE mc.lru, k, v)]

\* a get that never finds anything
CacheGetMiss(mc, k) == [cache |-> mc, value |-> "", ok |-> FALSE]

\* cache.get, lines 267-277 (one critical section of cache.mu): [cache, value, ok]
CacheGet(mc, k) ==
  IF mc.isNil
    THEN [cache |-> mc, value |-> "", ok |-> FALSE]
    ELSE LET g == LruGet(mc.lru, k)
         IN [cache |-> [mc EXCEPT !.lru = g.lru], value |-> g.value, ok |-> g.ok]

\* cache{cacheBytes: cacheBytes}, group.go 52: the lru is created by the first add
EmptyCache(cb) == [cacheBytes |-> cb, isNil |-> TRUE, lru |-> NewCache(cb, FALSE)]

\* is key k in the local cache
Cached(mc, k) == ~mc.isNil /\ k \in mc.lru.cache

(* ---- Group: group.go ---- *)

\* keys the clients ask for; Db is the table behind the backing-store getter
GKeys == {"", "a", "u", "rr"}
Db == [k \in {"a", "rr"} |-> IF k = "a" THEN "1" ELSE "22"]

\* capacities a namespace is created with (0: unbounded)
CacheSizes == {0, 5}

ZeroView == ""
NoPicker == "nil"
Pool == "pool"
NoPeer == "nil"

\* the keys the picker's ring gives to the remote node
RemoteKeys == {"rr"}

\* PeerPicker.PickPeer(key): <<peer, ok>>
PickPeer(pk, k) == IF k \in RemoteKeys THEN <<"B", TRUE>> ELSE <<NoPeer, FALSE>>

\* RegisterPeers, group.go 67-72, as called by one setup goroutine (nobody else writes
\* g.peers, so the test and the store are one step; RegCheck and RegStore below are the
\* two steps of concurrent callers): a second registration panics and stores nothing
RegisterPeers(pk) ==
  /\ peers' = IF peers # NoPicker THEN peers ELSE pk
  /\ UNCHANGED <<pc, key, caller, mu, m, calls, c, fnres, res, callCounter, nCalls,
                 hist, mainCache, aux>>

\* a key test that lets every key through
KeyInvalidNever(k) == FALSE

\* Get, group.go 76: key == ""
KeyInvalid(k) == k = ""

\* the error of group.go 77
InvalidKeyErr == "key isn't existed"

\* Get, group.go 75-78: a goroutine calls g.Get(k)
GetCall(p, k) ==
  /\ pc[p] \in {"idle", "done", "panicked"}
  /\ nCalls < MaxCalls
  /\ nCalls' = nCalls + 1
  /\ key' = [key EXCEPT ![p] = k]
  /\ caller' = [caller EXCEPT ![p] = "load"]
  /\ c' = [c EXCEPT ![p] = NoCall]
  /\ hist' = Invoked(p, k)
  /\ IF KeyInvalid(k)
       THEN /\ pc' = [pc EXCEPT ![p] = "done"]
            /\ res' = [res EXCEPT ![p] = <<ZeroView, InvalidKeyErr>>]
       ELSE /\ pc' = [pc EXCEPT ![p] = "cache_get"]
            /\ res' = [res EXCEPT ![p] = <<>>]
  /\ UNCHANGED <<mu, m, calls, fnres, callCounter, peers, mainCache, aux>>

\* Get, group.go 79-83: g.mainCache.get(key); a hit returns, a miss goes to load
GetCache(p) ==
  /\ pc[p] = "cache_get"
  /\ LET g == CacheGet(mainCache, key[p])
     IN /\ mainCache' = g.cache
        /\ IF g.ok
             THEN /\ pc' = [pc EXCEPT ![p] = "done"]
                  /\ res' = [res EXCEPT ![p] = <<g.value, NilErr>>]
                  /\ hist' = [hist EXCEPT ![p].hit = TRUE,
                                          ![p].warm = Cached(mainCache, key[p])]
             ELSE /\ pc' = [pc EXCEPT ![p] = "do_lock"]
                  /\ res' = res
                  /\ hist' = [hist EXCEPT ![p].miss = TRUE,
                                          ![p].warm = Cached(mainCache, key[p])]
  /\ UNCHANGED <<key, caller, mu, m, calls, c, fnres, callCounter, nCalls, peers, aux>>

\* the position of the loader after g.peers.PickPeer, group.go 90-91 and 98
AfterPick(pk, k) ==
  IF pk # NoPicker /\ PickPeer(pk, k)[2] THEN "peer_get" ELSE "get_locally"

\* load's closure, group.go 90-91
LoadPick(p) ==
  /\ pc[p] = "do_fn"
  /\ caller[p] = "load"
  /\ pc' = [pc EXCEPT ![p] = AfterPick(peers, key[p])]
  /\ hist' = [hist EXCEPT ![p].ran = TRUE]
  /\ calls' = [calls EXCEPT ![c[p]].h.execs = @ + 1]
  /\ UNCHANGED <<key, caller, mu, m, c, fnres, res, callCounter, nCalls, grp, aux>>

\* a loader that loads locally whatever the peer answered
AfterPeerLocal(ok) == "get_locally"

\* the position of the loader after getFromPeer, group.go 92-98
AfterPeer(ok) == IF ok THEN "do_store_val" ELSE "get_locally"

\* getFromPeer, group.go 107-113: the peer answers with the bytes or fails
PeerGet(p) ==
  /\ pc[p] = "peer_get"
  /\ \E ok \in {b \in BOOLEAN : b => key[p] \in DOMAIN Db} :
       /\ pc' = [pc EXCEPT ![p] = AfterPeer(ok)]
       /\ fnres' = [fnres EXCEPT ![p] = IF ok THEN <<Db[key[p]], NilErr>> ELSE @]
       /\ calls' = [calls EXCEPT
                      ![c[p]].h.out =
                         IF AfterPeer(ok) = "do_store_val" THEN <<Db[key[p]], NilErr>> ELSE @,
                      ![c[p]].h.peer = IF ok THEN "ok" ELSE "fail",
                      ![c[p]].h.nPeer = @ + 1]
  /\ UNCHANGED <<key, caller, mu, m, c, res, callCounter, nCalls, hist, grp, aux>>

\* what getLocally returns when the getter fails, group.go 118-120
GetterFailed == <<ZeroView, NilErr>>

\* getLocally, group.go 116-121: g.getter.Get(key)
GetLocally(p) ==
  /\ pc[p] = "get_locally"
  /\ IF key[p] \in DOMAIN Db
       THEN /\ pc' = [pc EXCEPT ![p] = "populate"]
            /\ fnres' = [fnres EXCEPT ![p] = <<Db[key[p]], NilErr>>]
            /\ calls' = [calls EXCEPT ![c[p]].h.back = "ok", ![c[p]].h.nBack = @ + 1]
       ELSE /\ pc' = [pc EXCEPT ![p] = "do_store_val"]
            /\ fnres' = [fnres EXCEPT ![p] = GetterFailed]
            /\ calls' = [calls EXCEPT ![c[p]].h.out = GetterFailed,
                                      ![c[p]].h.back = "fail", ![c[p]].h.nBack = @ + 1]
  /\ UNCHANGED <<key, caller, mu, m, c, res, callCounter, nCalls, hist, grp, aux>>

\* getLocally, group.go 122-123: g.populateCache(key, value); return value, nil
Populate(p) ==
  /\ pc[p] = "populate"
  /\ mainCache' = CacheAdd(mainCache, key[p], fnres[p][1])
  /\ calls' = [calls EXCEPT ![c[p]].h.out = fnres[p],
                            ![c[p]].h.nAdd = @ + 1,
                            ![c[p]].h.kept = Cached(mainCache', key[p]),
                            ![c[p]].h.emptied = /\ mainCache'.lru.ll = <<>>
                                                /\ mainCache'.lru.usedBytes = 0]
  /\ pc' = [pc EXCEPT ![p] = "do_store_val"]
  /\ UNCHANGED <<key, caller, mu, m, c, fnres, res, callCounter, nCalls, hist, peers, aux>>

(* ---- concurrent callers of RegisterPeers: group.go 67-72 ---- *)

\* goroutines that call RegisterPeers, and how often each may call it
NumRegs == 2
MaxRegCalls == 2
Regs == 1..NumRegs

Pool2 == "pool2"
Pickers == {Pool, Pool2}

\* RegisterPeers has no lock: the test of line 68 and the store of line 71 are two
\* steps of the calling goroutine.  RegCheck is the call and the test `g.peers != nil`:
\* it panics, or goes on to the store
RegCheck(r, pk) ==
  /\ reg[r].pc \in {"idle", "stored", "panicked"}
  /\ reg[r].n < MaxRegCalls
  /\ reg' = [reg EXCEPT ![r] = [pc |-> IF peers # NoPicker THEN "panicked" ELSE "checked",
                                pk |-> pk, n |-> reg[r].n + 1]]
  /\ UNCHANGED <<sfv, grp, stored, lruv, ringv, poolv>>

\* RegisterPeers, group.go 71: g.peers = peers
RegStore(r) ==
  /\ reg[r].pc = "checked"
  /\ peers' = reg[r].pk
  /\ stored' = Append(stored, reg[r].pk)
  /\ reg' = [reg EXCEPT ![r].pc = "stored"]
  /\ UNCHANGED <<sfv, mainCache, lruv, ringv, poolv>>

(* ---- direct users of lru.Cache: singleflight.go 96-159 ---- *)

\* operations made on one cache
MaxOps == 4

LKeys == {"k1", "k2", "k3"}
LongVal == "wwwww"
\* the values a key is added with: its own short value, or the long one
LVals(k) == {IF k = "k1" THEN "v1" ELSE IF k = "k2" THEN "v2" ELSE "v3", LongVal}

\* capacities of the cache (0: unbounded)
LCaps == {0, 6, 8, 10}

\* the callbacks an operation made: what it appended to the log
NewEvs(l, n) == SubSeq(n.evlog, Len(l.evlog) + 1, Len(n.evlog))

\* c.Add(k, v)
LAdd(k, v) ==
  /\ Len(ops) < MaxOps
  /\ lc' = LruAdd(lc, k, v)
  /\ ops' = Append(ops, [op |-> "Add", key |-> k, value |-> v, ok |-> k \in lc.cache,
                         pre |-> lc.ll, evs |-> NewEvs(lc, lc')])
  /\ UNCHANGED <<sfv, grp, regv, ringv, poolv>>

\* c.Get(k)
LGet(k) ==
  /\ Len(ops) < MaxOps
  /\ LET g == LruGet(lc, k)
     IN /\ lc' = g.lru
        /\ ops' = Append(ops, [op |-> "Get", key |-> k, value |-> g.value, ok |-> g.ok,
                               pre |-> lc.ll, evs |-> NewEvs(lc, g.lru)])
  /\ UNCHANGED <<sfv, grp, regv, ringv, poolv>>

\* c.Remove()
LRemove ==
  /\ Len(ops) < MaxOps
  /\ lc' = LruRemove(lc)
  /\ ops' = Append(ops, [op |-> "Remove", key |-> "", value |-> "", ok |-> Len(lc.ll) > 0,
                         pre |-> lc.ll, evs |-> NewEvs(lc, lc')])
  /\ UNCHANGED <<sfv, grp, regv, ringv, poolv>>

(* ---- consistenthash.Map: consistenthash.go ---- *)

\* node ids passed to Add so far (with repetitions)
MaxNodes == 3

\* byte strings of decimal digits are sequences of digits: "12" is <<1, 2>>
RECURSIVE Itoa(_)
\* strconv.Itoa(n), n >= 0
Itoa(n) == IF n < 10 THEN <<n>> ELSE Itoa(n \div 10) \o <<n % 10>>

RECURSIVE Atoi(_)
\* strconv.Atoi(s) for a string of digits
Atoi(s) == IF s = <<>> THEN 0 ELSE Atoi(SubSeq(s, 1, Len(s) - 1)) * 10 + s[Len(s)]

\* the Hash the map is made with: the bytes read as a decimal number, as a uint32
\* (the strings hashed here have at most four digits, so the uint32 holds the number)
RingHash(data) == Atoi(data)

\* a virtual-node name with the replica number behind the node id
VNodeKeySuffix(i, n) == n \o Itoa(i)

\* strconv.Itoa(i) + key, line 45
VNodeKey(i, n) == Itoa(i) \o n

\* NewHash(replicas, fn), lines 28-38
NewHash(replicas) == [replicas |-> replicas, keys |-> <<>>, hashMap |-> <<>>]

\* a sort that leaves the slice as it is
SortIntsNot(s) == s

LessInt(a, b) == a < b

\* sort.Ints(m.keys), line 50
SortInts(s) == SortSeq(s, LessInt)

RECURSIVE AddReplicas(_, _, _)
\* lines 44-48: the loop over i, from i on
AddReplicas(mp, n, i) ==
  IF i < mp.replicas
    THEN LET hash == RingHash(VNodeKey(i, n))
         IN AddReplicas([mp EXCEPT !.keys = Append(@, hash),
                                   !.hashMap = (hash :> n) @@ @], n, i + 1)
    ELSE mp

RECURSIVE AddNodes(_, _)
\* lines 43-49: the loop over the keys
AddNodes(mp, ns) ==
  IF ns = <<>> THEN mp ELSE AddNodes(AddReplicas(mp, ns[1], 0), Tail(ns))

\* Map.Add(keys...), lines 42-51
MapAdd(mp, ns) == LET a == AddNodes(mp, ns) IN [a EXCEPT !.keys = SortInts(a.keys)]

RECURSIVE Search(_, _, _, _)
\* sort.Search(len(m.keys), func(i) { return m.keys[i] >= hash }), lines 62-64:
\* the binary search over the indices i..j (counted from 0)
Search(ks, hash, i, j) ==
  IF i < j
    THEN LET h == (i + j) \div 2
         IN IF ~(ks[h + 1] >= hash) THEN Search(ks, hash, h + 1, j)
                                    ELSE Search(ks, hash, i, h)
    ELSE i

\* the empty node id ""
EmptyId == <<>>

\* Map.Get(key), lines 56-66
MapGet(mp, k) ==
  IF Len(mp.keys) = 0 THEN EmptyId
  ELSE LET hash == RingHash(k)
           idx == Search(mp.keys, hash, 0, Len(mp.keys))
       IN mp.hashMap[mp.keys[(idx % Len(mp.keys)) + 1]]

\* node ids, lookup keys and replica counts of the maps that are made
RingNodes == {<<6>>, <<4>>, <<2>>, <<1, 2>>}
RingKeys == {<<2>>, <<1, 1>>, <<2, 3>>, <<2, 7>>}
ReplicaChoices == {1, 3}
NodeLists == {<<n>> : n \in RingNodes} \cup {<<n, o>> : n \in RingNodes, o \in RingNodes}
                \cup {<< <<6>>, <<4>>, <<2>> >>}

\* m.Add(ns...)
RingAdd(ns) ==
  /\ Len(added) + Len(ns) <= MaxNodes
  /\ ring' = MapAdd(ring, ns)
  /\ added' = added \o ns
  /\ got' = <<>>
  /\ UNCHANGED <<sfv, grp, regv, lruv, poolv>>

\* m.Get(k)
RingGet(k) ==
  /\ got' = [key |-> k, node |-> MapGet(ring, k)]
  /\ UNCHANGED <<sfv, grp, regv, lruv, ring, added, poolv>>

(* ---- HttpPool: http.go ---- *)

\* const defaultReplicas, http.go 17
defaultReplicas == 50

\* calls of PickPeer recorded between two calls of Set
MaxPicks == 2

\* what PickPeer hands back as its PeerGetter: the nil interface, the interface that
\* holds a nil *httpGetter, or the interface that holds an httpGetter with its baseURL
NoGetter == [kind |-> "nil", baseURL |-> EmptyId]
NilPtrGetter == [kind |-> "nilptr", baseURL |-> EmptyId]
SomeGetter(url) == [kind |-> "getter", baseURL |-> url]

\* NewHttpPool(self), lines 32-37: peers is a nil *Map and httpGetters a nil map
NewHttpPool(self) ==
  [self |-> self, peersNil |-> TRUE, peers |-> NewHash(0), httpGetters |-> <<>>]

\* p.httpGetters[peer], line 138: the zero value (a nil pointer) for a missing key
GetterOf(hg, peer) == IF peer \in DOMAIN hg THEN SomeGetter(hg[peer]) ELSE NilPtrGetter

\* HttpPool.Set(peers...), lines 123-129.  The Map is made with a nil hash function,
\* so NewHash installs crc32.ChecksumIEEE; RingHash stands in for it here (PickPeer
\* uses the hash only through the node that Map.Get returns).
PoolSet(h, ns) ==
  [h EXCEPT !.peersNil = FALSE,
            !.peers = MapAdd(NewHash(defaultReplicas), ns),
            !.httpGetters = <<>>]

\* HttpPool.PickPeer(key), lines 133-141; p.peers.Get on the nil Map of a pool that
\* was never Set dereferences a nil pointer (consistenthash.go 57)
PoolPickPeer(h, k) ==
  IF h.peersNil
    THEN [panicked |-> TRUE, getter |-> NoGetter, found |-> FALSE]
    ELSE LET peer == MapGet(h.peers, k)
         IN IF peer # EmptyId /\ peer # h.self
              THEN [panicked |-> FALSE, getter |-> GetterOf(h.httpGetters, peer),
                    found |-> TRUE]
              ELSE [panicked |-> FALSE, getter |-> NoGetter, found |-> FALSE]

\* the addresses of the nodes, the address of this pool, the lists given to Set and the
\* keys looked up
PoolSelves == {<<6>>, <<8>>}
PoolLists == {<<>>, << <<6>> >>, << <<6>>, <<4>> >>, << <<6>>, <<4>>, <<2>> >>}
PoolKeys == {<<2>>, <<5>>, <<1, 3>>, <<9, 9, 9>>}

\* p.Set(ns...)
HSet(ns) ==
  /\ hp' = PoolSet(hp, ns)
  /\ picks' = <<>>
  /\ UNCHANGED <<sfv, grp, regv, lruv, ringv>>

\* p.PickPeer(k); the record keeps the key, what came back, and what the ring held
HPick(k) ==
  /\ Len(picks) < MaxPicks
  /\ picks' = Append(picks, [key |-> k, ret |-> PoolPickPeer(hp, k),
                             wasSet |-> ~hp.peersNil,
                             empty |-> Len(hp.peers.keys) = 0,
                             node |-> MapGet(hp.peers, k)])
  /\ UNCHANGED <<sfv, grp, regv, lruv, ringv, hp>>

(* ---- specifications ---- *)

\* nobody registers concurrently, no lru.Cache or Map is used on its own
InitRegIdle ==
  /\ reg = [r \in Regs |-> [pc |-> "idle", pk |-> NoPicker, n |-> 0]]
  /\ stored = <<>>
InitLruIdle ==
  /\ lc = NewCache(0, FALSE)
  /\ ops = <<>>
InitRingIdle ==
  /\ ring = NewHash(0)
  /\ added = <<>>
  /\ got = <<>>
InitPoolIdle ==
  /\ hp = NewHttpPool(EmptyId)
  /\ picks = <<>>

InitProcs ==
  /\ pc = [p \in Procs |-> "idle"]
  /\ key = [p \in Procs |-> "x"]
  /\ caller = [p \in Procs |-> "test"]
  /\ mu = NoProc
  /\ m = <<>>
  /\ calls = <<>>
  /\ c = [p \in Procs |-> NoCall]
  /\ fnres = [p \in Procs |-> <<>>]
  /\ res = [p \in Procs |-> <<>>]
  /\ callCounter = 0
  /\ nCalls = 0
  /\ hist = [p \in Procs |-> EmptyHist]
  /\ peers = NoPicker

\* a namespace after NewGroup(name, cacheBytes, getter), group.go 43-57
Init ==
  /\ InitProcs
  /\ \E cb \in CacheSizes : mainCache = EmptyCache(cb)
  /\ InitRegIdle /\ InitLruIdle /\ InitRingIdle /\ InitPoolIdle

Next ==
  \/ RegisterPeers(Pool)
  \/ \E p \in Procs :
       \/ \E k \in GKeys : GetCall(p, k)
       \/ GetCache(p)
       \/ DoStep(p)
       \/ LoadPick(p)
       \/ PeerGet(p)
       \/ GetLocally(p)
       \/ Populate(p)

Spec == Init /\ [][Next]_vars

\* a singleflight.Group used directly, as by the package's callers and tests
\* a Group asked for the keys the backing store holds, unbounded or with a bound
\* below, equal to and above the size of the entry for "rr" (4 bytes)
DbSizes == {0, 3, 4, 5}
DbKeys == DOMAIN Db

InitDb ==
  /\ InitProcs
  /\ \E cb \in DbSizes : mainCache = EmptyCache(cb)
  /\ InitRegIdle /\ InitLruIdle /\ InitRingIdle /\ InitPoolIdle

NextDb ==
  \/ RegisterPeers(Pool)
  \/ \E p \in Procs :
       \/ \E k \in DbKeys : GetCall(p, k)
       \/ GetCache(p)
       \/ DoStep(p)
       \/ LoadPick(p)
       \/ PeerGet(p)
       \/ GetLocally(p)
       \/ Populate(p)

SpecDb == InitDb /\ [][NextDb]_vars

InitSF ==
  /\ InitProcs
  /\ mainCache = EmptyCache(0)
  /\ InitRegIdle /\ InitLruIdle /\ InitRingIdle /\ InitPoolIdle

NextSF ==
  \E p \in Procs :
    \/ \E k \in SFKeys : TestCall(p, k)
    \/ DoStep(p)
    \/ TestFnBegin(p)
    \/ TestFnReturn(p)
    \/ TestFnPanic(p)

SpecSF == InitSF /\ [][NextSF]_vars

\* the key whose fn may stay in its body forever; the fn of every other key returns
BlockedKey == "y"

\* the scheduler lets every goroutine that can take a step of Do take it (the Go
\* runtime runs every runnable goroutine, and sync.Mutex hands the lock to a waiter);
\* fn is started once Do reaches line 48; an fn of a key other than BlockedKey comes
\* to its end.  Nothing makes a caller call Do, and nothing ends the fn of BlockedKey.
\* (Every one of these steps moves the goroutine, so the steps are counted on pc.)
FairLive ==
  \A p \in Procs :
    WF_pc(DoStep(p) \/ TestFnBegin(p) \/ (TestFnReturn(p) /\ key[p] # BlockedKey))

\* the direct callers of Do whose fn returns, except that the fn of BlockedKey may also
\* panic or never end
NextLive ==
  \E p \in Procs :
    \/ \E k \in SFKeys : TestCall(p, k)
    \/ DoStep(p)
    \/ TestFnBegin(p)
    \/ TestFnReturn(p)
    \/ TestFnPanic(p) /\ key[p] = BlockedKey

\* the direct callers of Do under a fair scheduler
SpecLive == InitSF /\ [][NextLive]_vars /\ FairLive

\* goroutines that call RegisterPeers on one fresh Group at the same time
InitReg ==
  /\ InitProcs
  /\ mainCache = EmptyCache(0)
  /\ InitRegIdle /\ InitLruIdle /\ InitRingIdle /\ InitPoolIdle

NextReg ==
  \E r \in Regs :
    \/ \E pk \in Pickers : RegCheck(r, pk)
    \/ RegStore(r)

SpecReg == InitReg /\ [][NextReg]_vars

\* an lru.Cache made by NewCache(maxBytes, onEvicted) and used by one goroutine
InitLRU ==
  /\ InitProcs
  /\ mainCache = EmptyCache(0)
  /\ InitRegIdle /\ InitRingIdle /\ InitPoolIdle
  /\ \E mb \in LCaps : \E oe \in BOOLEAN : lc = NewCache(mb, oe)
  /\ ops = <<>>

NextLRU ==
  \/ \E k \in LKeys : \E v \in LVals(k) : LAdd(k, v)
  \/ \E k \in LKeys : LGet(k)
  \/ LRemove

SpecLRU == InitLRU /\ [][NextLRU]_vars

\* a consistenthash.Map made by NewHash(replicas, fn) and used by one goroutine
InitRing ==
  /\ InitProcs
  /\ mainCache = EmptyCache(0)
  /\ InitRegIdle /\ InitLruIdle /\ InitPoolIdle
  /\ \E r \in ReplicaChoices : ring = NewHash(r)
  /\ added = <<>>
  /\ got = <<>>

NextRing ==
  \/ \E ns \in NodeLists : RingAdd(ns)
  \/ \E k \in RingKeys : RingGet(k)

SpecRing == InitRing /\ [][NextRing]_vars

\* an HttpPool made by NewHttpPool(self) and used through Set and PickPeer
InitPool ==
  /\ InitProcs
  /\ mainCache = EmptyCache(0)
  /\ InitRegIdle /\ InitLruIdle /\ InitRingIdle
  /\ \E s \in PoolSelves : hp = NewHttpPool(s)
  /\ picks = <<>>

NextPool ==
  \/ \E ns \in PoolLists : HSet(ns)
  \/ \E k \in PoolKeys : HPick(k)

SpecPool == InitPool /\ [][NextPool]_vars

(* ======================= the claims ======================= *)

Done(p) == pc[p] = "done"
CallIds == 1..Len(calls)

\* the latest calls of the goroutines of S were all invoked before any of them returned
AllOverlap(S) == \A p \in S : \A q \in S \ {p} : q \in hist[p].conc

RECURSIVE SumOf(_, _)
SumOf(S, f) ==
  IF S = {} THEN 0
  ELSE LET x == CHOOSE y \in S : TRUE IN f[x] + SumOf(S \ {x}, f)

\* C1 as stated: when K goroutines call Do(k, fn), each invoked before any of them
\* has returned, and nothing else is called, fn runs exactly once in total and all
\* K calls return the same pair.
C1_Original ==
  \A k \in SFKeys :
    LET S == {p \in Procs : Done(p) /\ key[p] = k /\ c[p] # NoCall}
    IN (S # {} /\ nCalls = Cardinality(S) /\ AllOverlap(S))
         => /\ SumOf(CallIds, [id \in CallIds |-> calls[id].h.execs]) = 1
            /\ \A p \in S : \A q \in S : res[p] = res[q]

\* C1 (amended): for the Do calls on one key that find or create the same call object
\* (they take the mutex before the executing caller deletes the entry), fn is
\* executed exactly once and every one of them that returns returns the pair that
\* execution produced.
C1_SharedCallRunsOnce ==
  \A id \in CallIds :
    LET S == {p \in Procs : Done(p) /\ c[p] = id}
    IN S # {} =>
         /\ calls[id].h.execs = 1
         /\ Cardinality({p \in Procs : c[p] = id /\ hist[p].ran}) <= 1
         /\ \A p \in S : key[p] = calls[id].h.key /\ res[p] = calls[id].h.out

\* two goroutines have returned from Do on the same call object, one of them a waiter
C1_Witness ==
  \E p \in Procs : \E q \in Procs \ {p} :
    /\ Done(p) /\ Done(q) /\ c[p] # NoCall /\ c[p] = c[q]
    /\ hist[p].ran /\ hist[q].joined

\* the positions at which a goroutine is executing the fn passed to Do
InFn(p) == pc[p] \in {"do_fn", "in_fn", "peer_get", "get_locally", "populate"}

\* C3: for every key at most one goroutine is executing the fn passed to Do.
C3_OneExecutionPerKey ==
  \A k \in SFKeys : Cardinality({p \in Procs : InFn(p) /\ key[p] = k}) <= 1

\* one goroutine executes fn for a key while another has found its call and waits
C3_Witness ==
  \E p \in Procs : \E q \in Procs \ {p} :
    pc[p] = "in_fn" /\ pc[q] = "do_wait" /\ key[p] = key[q] /\ c[p] = c[q]

\* C4: a Do call that found an existing call in the map does not run fn itself and
\* returns exactly the pair the fn of that call object produced.
C4_WaiterGetsProducedPair ==
  \A p \in Procs :
    (Done(p) /\ hist[p].joined)
      => /\ ~hist[p].ran
         /\ calls[c[p]].h.execs = 1
         /\ res[p] = calls[c[p]].h.out

\* a waiter has returned the error pair its call's fn produced
C4_Witness ==
  \E p \in Procs : Done(p) /\ hist[p].joined /\ res[p][2] = SomeErr /\ res[p][1] # NilVal

\* C5 as stated: when the fn of a Do call panics, the entry of its call object is
\* still removed from the in-flight map.
C5_PanicRemovesEntry ==
  \A p \in Procs : pc[p] = "panicked" => Lookup(m, key[p]) # c[p]

\* C6 as stated: no Do invoked after the execution of fn has returned (and its
\* completion was signalled) joins that completed call.
C6_Original ==
  \A p \in Procs : hist[p].joined => c[p] # hist[p].late

\* C6 (amended): a call object is deleted from the map only after its fn has returned
\* and its completion was signalled, a deleted call is not in the map, and no Do whose
\* lookup comes after the deletion joins the deleted call: it creates a fresh call.
C6_NoJoinAfterDelete ==
  /\ \A id \in CallIds :
       calls[id].h.removed =>
         /\ calls[id].h.out # <<>> /\ calls[id].wg = 0
         /\ \A k \in DOMAIN m : m[k] # id
  /\ \A p \in Procs : hist[p].joined => ~hist[p].gone
  /\ \A p \in Procs :
       (c[p] # NoCall /\ ~hist[p].joined) =>
          \A id \in CallIds : (id < c[p] /\ calls[id].h.key = key[p]) =>
             calls[id].h.removed

\* a Do that came after the deletion of a call of its key runs fn afresh
C6_Witness ==
  \E p \in Procs : \E id \in CallIds :
    /\ hist[p].ran /\ id < c[p]
    /\ calls[id].h.key = key[p] /\ calls[id].h.removed
    /\ Done(p) /\ res[p] # <<calls[id].val, calls[id].err>>

\* C7: when no fn of key k has panicked and every Do call for k has returned, the
\* in-flight map has no entry for k.
C7_CleanupAfterReturn ==
  \A k \in SFKeys :
    (/\ \A id \in CallIds : calls[id].h.key = k => ~calls[id].h.aborted
     /\ \A p \in Procs : key[p] = k => ~InFlight(p))
      => k \notin DOMAIN m

\* the executing caller and a waiter of one key have both returned, the map is empty
C7_Witness ==
  \E p \in Procs : \E q \in Procs \ {p} :
    /\ Done(p) /\ Done(q) /\ key[p] = key[q] /\ c[p] = c[q] /\ c[p] # NoCall
    /\ hist[q].joined /\ ~calls[c[p]].h.aborted
    /\ key[p] \notin DOMAIN m

(* ---- Group ---- *)

\* C2 as stated: Get(k) calls that overlap in time and all miss the local cache make
\* exactly one load in total (one backing-store call at most, one peer call at most,
\* at least one of them) and return the same result.
C2_Original ==
  \A k \in GKeys :
    LET S == {p \in Procs : Done(p) /\ key[p] = k /\ hist[p].miss}
    IN (S # {} /\ nCalls = Cardinality(S) /\ AllOverlap(S))
         => /\ SumOf(CallIds, [id \in CallIds |-> calls[id].h.nBack]) <= 1
            /\ SumOf(CallIds, [id \in CallIds |-> calls[id].h.nPeer]) <= 1
            /\ SumOf(CallIds, [id \in CallIds |-> calls[id].h.nBack + calls[id].h.nPeer]) >= 1
            /\ \A p \in S : \A q \in S : res[p] = res[q]

\* C2 (amended): the Get(k) calls that miss and find or create the same single-flight
\* call run the loader exactly once, with at most one peer call and at most one
\* backing-store call, and all return the result of that load.
C2_SharedLoadRunsOnce ==
  \A id \in CallIds :
    LET S == {p \in Procs : Done(p) /\ c[p] = id}
    IN S # {} =>
         /\ calls[id].h.execs = 1
         /\ calls[id].h.nBack <= 1 /\ calls[id].h.nPeer <= 1
         /\ calls[id].h.nBack + calls[id].h.nPeer >= 1
         /\ \A p \in S : /\ hist[p].miss /\ key[p] = calls[id].h.key
                        /\ res[p] = calls[id].h.out

\* two Gets of one key missed and returned the result of one shared load
C2_Witness ==
  \E p \in Procs : \E q \in Procs \ {p} :
    /\ Done(p) /\ Done(q) /\ c[p] # NoCall /\ c[p] = c[q]
    /\ hist[p].miss /\ hist[q].miss /\ hist[q].joined
    /\ key[q] \in DOMAIN Db /\ res[q] = <<Db[key[q]], NilErr>>

\* C8 as stated: a Get whose backing-store call failed returns an error, and the key
\* is not in the local cache.
C8_BackingErrorSurfaced ==
  \A p \in Procs :
    (Done(p) /\ hist[p].ran /\ calls[c[p]].h.back = "fail")
      => res[p][2] # NilErr /\ ~Cached(mainCache, key[p])

\* the entry (k, v) fits a cache of capacity cb: Add does not evict it again
Fits(cb, k, v) == cb <= 0 \/ Len(k) + ByteViewLen(v) < cb

\* C9 as stated: a Get that missed, picked a remote peer and saw its getter fail
\* invokes the backing store exactly once and, when that succeeds, returns the loaded
\* value, which is in the local cache after populateCache.
C9_Original ==
  \A p \in Procs :
    (Done(p) /\ hist[p].ran /\ calls[c[p]].h.peer = "fail")
      => /\ calls[c[p]].h.nBack = 1
         /\ calls[c[p]].h.back = "ok" =>
              /\ res[p] = <<Db[key[p]], NilErr>>
              /\ calls[c[p]].h.nAdd = 1
              /\ calls[c[p]].h.kept

\* C9 (amended): ... and, when that succeeds, returns the loaded value and adds it to
\* the local cache once; the key is in the cache after that add when the entry fits
\* the capacity (cacheBytes = 0 or len(key) + len(value) < cacheBytes).
C9_FallbackPopulates ==
  \A p \in Procs :
    (Done(p) /\ hist[p].ran /\ calls[c[p]].h.peer = "fail")
      => /\ calls[c[p]].h.nBack = 1
         /\ calls[c[p]].h.back = "ok" =>
              /\ res[p] = <<Db[key[p]], NilErr>>
              /\ calls[c[p]].h.nAdd = 1
              /\ Fits(mainCache.cacheBytes, key[p], Db[key[p]]) => calls[c[p]].h.kept

\* a fallback load into a bounded cache that keeps the entry
C9_Witness ==
  \E p \in Procs :
    /\ Done(p) /\ hist[p].ran /\ calls[c[p]].h.peer = "fail"
    /\ calls[c[p]].h.back = "ok" /\ calls[c[p]].h.kept
    /\ mainCache.cacheBytes > 0

\* C10: a Get answered by a successful peer call returns the peer's value, makes no
\* backing-store call and adds nothing to the local cache.
C10_PeerServedNotCached ==
  \A p \in Procs :
    (Done(p) /\ hist[p].ran /\ calls[c[p]].h.peer = "ok")
      => /\ calls[c[p]].h.nBack = 0
         /\ calls[c[p]].h.nAdd = 0
         /\ res[p] = <<Db[key[p]], NilErr>>

\* a Get was served by the peer and the key is absent from the local cache
C10_Witness ==
  \E p \in Procs :
    /\ Done(p) /\ hist[p].ran /\ calls[c[p]].h.peer = "ok"
    /\ ~Cached(mainCache, key[p])

\* C11: a Get that finds its key in the local cache returns the cached value and does
\* nothing else: it attaches to no single-flight call, runs no loader, joins nobody, so
\* it reaches neither the picker, a peer nor the backing store; and a Get whose key is
\* in the cache when it looks (as after a local load that kept the entry) takes this path.
C11_CacheHitIsSilent ==
  \A p \in Procs :
    /\ hist[p].hit =>
         /\ Done(p) /\ c[p] = NoCall
         /\ ~hist[p].ran /\ ~hist[p].joined /\ ~hist[p].miss
         /\ key[p] \in DOMAIN Db /\ res[p] = <<Db[key[p]], NilErr>>
    /\ hist[p].warm => hist[p].hit

\* a Get hit the cache right after the one local load of its key, whose entry was kept;
\* the backing store was called once in all
C11_Witness ==
  \E p \in Procs :
    /\ Done(p) /\ hist[p].hit
    /\ Len(calls) = 1
    /\ calls[1].h.key = key[p] /\ calls[1].h.back = "ok" /\ calls[1].h.kept
    /\ calls[1].h.nBack = 1 /\ calls[1].h.removed

\* C12: Get("") returns the InvalidKey error at once and touches nothing: the cache
\* (contents and recency order), the single-flight mapping and its calls, the mutex and
\* the picker stay as they are, and no goroutine enters or moves in a loader, so neither
\* a peer nor the backing store is called.
C12_EmptyKeyRejected ==
  [][\A p \in Procs :
       (nCalls' # nCalls /\ key'[p] = "" /\ GetCall(p, "")) =>
         /\ pc'[p] = "done"
         /\ res'[p] = <<ZeroView, InvalidKeyErr>> /\ InvalidKeyErr # NilErr
         /\ c'[p] = NoCall
         /\ UNCHANGED <<mainCache, m, calls, mu, peers, fnres, callCounter>>
         /\ \A q \in Procs \ {p} : pc'[q] = pc[q] /\ res'[q] = res[q]]_vars

\* Get("") returned its error while the load of another Get was in flight
C12_Witness ==
  \E p \in Procs :
    /\ Done(p) /\ key[p] = "" /\ caller[p] = "load"
    /\ res[p] = <<ZeroView, InvalidKeyErr>>
    /\ \E q \in Procs \ {p} : InFn(q)
    /\ DOMAIN m # {}

\* C13: whatever RegisterPeers calls are made on one Group, and however they interleave,
\* at most one of them stores its picker; every other call panics, and the picker that
\* was stored is never replaced.
C13_PickerAssignedOnce ==
  /\ Len(stored) <= 1
  /\ stored # <<>> => peers = stored[1]
  /\ Cardinality({r \in Regs : reg[r].pc = "stored"}) <= 1

(* ---- lru.Cache used directly ---- *)

LastOp == ops[Len(ops)]
\* the keys of a list of entries, and the value a list holds for a key
KeysOf(ll) == {ll[i].key : i \in 1..Len(ll)}
ValueIn(ll, k) == ll[CHOOSE i \in 1..Len(ll) : ll[i].key = k].value

RECURSIVE SumSizes(_)
\* the sum of len(key) + len(value) over a list of entries
SumSizes(ll) ==
  IF ll = <<>> THEN 0 ELSE Len(ll[1].key) + Len(ll[1].value) + SumSizes(Tail(ll))

\* C14: after any sequence of Add, Get and Remove, usedBytes is the sum of
\* len(key) + value.Len() over the entries in the store, and the lookup table holds
\* exactly the keys of the list, each once.
C14_UsedBytesIsSum ==
  /\ lc.usedBytes = SumSizes(lc.ll)
  /\ lc.cache = KeysOf(lc.ll)
  /\ Cardinality(lc.cache) = Len(lc.ll)

\* an Add has just replaced the value of a live key by one of another length, after a
\* Remove took an entry out, and entries are left
C14_Witness ==
  /\ Len(ops) >= 3
  /\ LastOp.op = "Add" /\ LastOp.ok
  /\ Len(LastOp.value) # Len(ValueIn(LastOp.pre, LastOp.key))
  /\ \E i \in 1..Len(ops) : ops[i].op = "Remove" /\ ops[i].ok
  /\ Len(lc.ll) >= 1 /\ lc.usedBytes > 0

Touches(o) == o.op = "Add" \/ (o.op = "Get" /\ o.ok)
\* the number of the last operation that touched key k (0: none)
LastTouch(k) ==
  LET T == {i \in 1..Len(ops) : ops[i].key = k /\ Touches(ops[i])}
  IN IF T = {} THEN 0 ELSE CHOOSE i \in T : \A j \in T : j <= i
\* the keys that left the store in the last operation
LeftInLastOp ==
  (KeysOf(LastOp.pre) \cup (IF LastOp.op = "Add" THEN {LastOp.key} ELSE {})) \ KeysOf(lc.ll)
\* every entry that left in the last operation was touched before every entry that stays,
\* and the list is in the order of the last touches, newest first
OldestLeaveFirst ==
  /\ ops # <<>> =>
       \A e \in LeftInLastOp : \A k \in KeysOf(lc.ll) : LastTouch(e) < LastTouch(k)
  /\ \A i \in 1..Len(lc.ll) : \A j \in 1..Len(lc.ll) :
       i < j => LastTouch(lc.ll[i].key) > LastTouch(lc.ll[j].key)

\* C16 as stated: after each Get hit or Add the touched entry is at the head of the list,
\* and every eviction removes the live entry whose last touch is the oldest.
C16_Original ==
  /\ (ops # <<>> /\ Touches(LastOp)) => (lc.ll # <<>> /\ lc.ll[1].key = LastOp.key)
  /\ OldestLeaveFirst

\* C16 (amended): after each Get hit or Add the touched entry is at the head of the list
\* if it is still in the store; it is not only after an Add to a bounded cache of an
\* entry with len(key) + len(value) >= maxBytes, which leaves the store empty.  Every
\* eviction removes the live entry whose last touch is the oldest.
C16_RecencyOrder ==
  /\ (ops # <<>> /\ Touches(LastOp)) =>
       IF LastOp.key \in lc.cache
         THEN lc.ll[1].key = LastOp.key
         ELSE /\ LastOp.op = "Add" /\ lc.ll = <<>>
              /\ lc.maxBytes > 0
              /\ Len(LastOp.key) + Len(LastOp.value) >= lc.maxBytes
  /\ OldestLeaveFirst

\* a Get hit moved the older of two entries to the head, and the next Add then evicted
\* the other one and kept the entry the Get had touched
C16_Witness ==
  /\ Len(ops) >= 4
  /\ LastOp.op = "Add" /\ ~LastOp.ok
  /\ LET g == ops[Len(ops) - 1]
     IN /\ g.op = "Get" /\ g.ok
        /\ Len(g.pre) = 2 /\ g.pre[2].key = g.key
        /\ LeftInLastOp = {g.pre[1].key}
        /\ KeysOf(lc.ll) = {LastOp.key, g.key}
        /\ lc.ll[1].key = LastOp.key

\* the operations of scenario 2, on a cache whose capacity is the size of two entries
ScenarioOps == << <<"Add", "k1", "v1">>, <<"Add", "k2", "v2">>, <<"Get", "k1", "v1">>,
                  <<"Add", "k3", "v3">> >>
ScenarioCap == Len("k1") + Len("v1") + Len("k2") + Len("v2")
ScenarioDone ==
  /\ lc.maxBytes = ScenarioCap
  /\ Len(ops) = Len(ScenarioOps)
  /\ \A i \in 1..Len(ops) :
       /\ ops[i].op = ScenarioOps[i][1]
       /\ ops[i].key = ScenarioOps[i][2]
       /\ ops[i].op = "Add" => ops[i].value = ScenarioOps[i][3]

\* C17: with the capacity len(k1)+len(v1)+len(k2)+len(v2), the operations Add(k1, v1),
\* Add(k2, v2), Get(k1), Add(k3, v3) end with k2 evicted and k1 and k3 in the store.
C17_ScenarioKeepsK1AndK3 ==
  ScenarioDone => lc.cache = {"k1", "k3"}

\* the number of entries of a sequence of callbacks that name key k
RECURSIVE CallsFor(_, _)
CallsFor(log, k) ==
  IF log = <<>> THEN 0
  ELSE (IF log[1][1] = k THEN 1 ELSE 0) + CallsFor(Tail(log), k)
\* how often Add made a new entry for key k
InsertsOf(k) == Cardinality({i \in 1..Len(ops) : ops[i].op = "Add" /\ ops[i].key = k /\ ~ops[i].ok})
\* the value an entry that left in the last operation had when it left
ValueAtLeave(k) ==
  IF LastOp.op = "Add" /\ LastOp.key = k THEN LastOp.value ELSE ValueIn(LastOp.pre, k)

\* C18: when OnEvicted is set it is invoked exactly once, with the entry's key and its
\* current value, for every entry that leaves the store (by Remove or by an eviction
\* inside Add), and never for an entry that stays: each operation calls it once per key
\* that left, and for every key the entries made equal the callbacks plus the live entry.
C18_CallbackOncePerLeaver ==
  lc.onEvicted =>
    /\ ops # <<>> =>
         /\ Len(LastOp.evs) = Cardinality(LeftInLastOp)
         /\ \A i \in 1..Len(LastOp.evs) :
              /\ LastOp.evs[i][1] \in LeftInLastOp
              /\ LastOp.evs[i][2] = ValueAtLeave(LastOp.evs[i][1])
         /\ \A e \in LeftInLastOp : CallsFor(LastOp.evs, e) = 1
    /\ \A k \in LKeys :
         InsertsOf(k) = CallsFor(lc.evlog, k) + (IF k \in lc.cache THEN 1 ELSE 0)

\* the callback ran for an entry dropped by Remove and for an entry evicted inside an
\* Add, while another entry stays in the store
C18_Witness ==
  /\ lc.onEvicted /\ lc.ll # <<>>
  /\ \E i \in 1..Len(ops) : ops[i].op = "Remove" /\ Len(ops[i].evs) = 1
  /\ \E i \in 1..Len(ops) : ops[i].op = "Add" /\ Len(ops[i].evs) >= 1
  /\ Len(lc.evlog) >= 2

(* ---- consistenthash.Map used directly ---- *)

SortedAsc(ks) == \A i \in 1..Len(ks) : \A j \in 1..Len(ks) : i < j => ks[i] <= ks[j]
NodesAdded == {added[i] : i \in 1..Len(added)}
RingValues == {ring.keys[i] : i \in 1..Len(ring.keys)}

\* C19 as stated: after any Add calls the ring is sorted ascending, its length is
\* replicas times the number of distinct node ids added, and every ring entry is a key
\* of hashMap.
C19_Original ==
  /\ SortedAsc(ring.keys)
  /\ Len(ring.keys) = ring.replicas * Cardinality(NodesAdded)
  /\ RingValues \subseteq DOMAIN ring.hashMap

\* C19 (amended): after any Add calls the ring is sorted ascending, its length is
\* replicas times the number of node ids passed to Add, counted with repetitions (a node
\* id added again and a virtual-node hash that collides are appended again), and the
\* ring entries are exactly the keys of hashMap.
C19_RingInvariant ==
  /\ SortedAsc(ring.keys)
  /\ Len(ring.keys) = ring.replicas * Len(added)
  /\ RingValues = DOMAIN ring.hashMap

\* one node id was added twice, virtual nodes of two different nodes collide, and the
\* ring holds the same hash more than once
C19_Witness ==
  /\ \E i \in 1..Len(added) : \E j \in 1..Len(added) : i < j /\ added[i] = added[j]
  /\ \E n \in NodesAdded : \E o \in NodesAdded \ {n} :
       \E i \in 0..(ring.replicas - 1) : \E j \in 0..(ring.replicas - 1) :
         Atoi(Itoa(i) \o n) = Atoi(Itoa(j) \o o)
  /\ Cardinality(RingValues) < Len(ring.keys)
  /\ Len(ring.keys) > ring.replicas

\* the hash of virtual node i of node n
VHash(i, n) == Atoi(Itoa(i) \o n)
\* the smallest element of a set of numbers
MinOf(S) == CHOOSE x \in S : \A y \in S : x <= y
\* the node mapped to the smallest virtual-node hash >= H(k), or to the smallest of all
OwnerOf(k) ==
  LET G == {x \in RingValues : x >= Atoi(k)}
  IN ring.hashMap[IF G # {} THEN MinOf(G) ELSE MinOf(RingValues)]

\* scenario 3: replicas = 3, nodes "6", "4", "2"
Scenario3 == ring.replicas = 3 /\ added = << <<6>>, <<4>>, <<2>> >>
Scenario3Owner(k) ==
  IF k = <<2>> THEN <<2>> ELSE IF k = <<1, 1>> THEN <<2>>
  ELSE IF k = <<2, 3>> THEN <<4>> ELSE <<2>>

\* C20: Get(key) returns the empty id when the ring is empty, else the node mapped to
\* the smallest virtual-node hash >= H(key), wrapping to the smallest hash of the ring;
\* virtual node i of node n has the hash H(decimal(i) ++ n).  With replicas = 3,
\* H = atoi and the nodes "6", "4", "2" the ring is 2,4,6,12,14,16,22,24,26 and
\* Get("2") = "2", Get("11") = "2", Get("23") = "4", Get("27") = "2".
C20_RingLookup ==
  /\ RingValues = {VHash(i, n) : i \in 0..(ring.replicas - 1), n \in NodesAdded}
  /\ \A h \in DOMAIN ring.hashMap :
       \E i \in 0..(ring.replicas - 1) : h = VHash(i, ring.hashMap[h])
  /\ got # <<>> =>
       got.node = IF added = <<>> THEN EmptyId ELSE OwnerOf(got.key)
  /\ Scenario3 =>
       /\ ring.keys = <<2, 4, 6, 12, 14, 16, 22, 24, 26>>
       /\ got # <<>> => got.node = Scenario3Owner(got.key)

\* in scenario 3, Get("27") wrapped around to the first virtual node and returned "2"
C20_Witness ==
  /\ Scenario3
  /\ got # <<>> /\ got.key = <<2, 7>> /\ got.node = <<2>>
  /\ \A x \in RingValues : x < Atoi(got.key)

(* ---- Do under a fair scheduler ---- *)

\* the goroutine that is about to run fn, or is inside it, does not hold g.mu
MutexFreeInFn == \A p \in Procs : pc[p] \in {"do_fn", "in_fn"} => mu # p

\* a Do on a key whose fn executions end is in flight
Pending == \E p \in Procs : InFlight(p) /\ key[p] # BlockedKey

\* C21: under fair scheduling every Do(k, fn) whose key's fn executions come to their end
\* (return, not panic) returns, also while the fn of a Do on another key never ends:
\* the mutex is not held by a goroutine while it runs fn, and no such Do stays in
\* flight forever (a call in flight leaves that state only by returning, and the callers
\* make finitely many calls, so from some time on none of them is in flight).
C21_DoReturns ==
  /\ []MutexFreeInFn
  /\ <>[]~Pending

\* a Do on one key has run its fn and returned while the fn of a Do on the blocked key
\* was still running
C21_Witness ==
  \E p \in Procs : \E q \in Procs \ {p} :
    /\ Done(p) /\ key[p] # BlockedKey /\ hist[p].ran /\ q \in hist[p].conc
    /\ pc[q] = "in_fn" /\ key[q] = BlockedKey
    /\ calls[c[q]].h.execs = 1 /\ calls[c[p]].h.removed

\* an entry for key k with value v is as large as the bound cb of the cache or larger
Oversize(cb, k, v) == cb > 0 /\ Len(k) + ByteViewLen(v) >= cb

C23_PickPeerGetter ==
  \A i \in 1..Len(picks) :
    LET pk == picks[i] IN
      pk.wasSet =>
        /\ ~pk.ret.panicked
        /\ pk.ret.found =>
             /\ pk.node # hp.self /\ pk.node # EmptyId
             /\ pk.ret.getter = SomeGetter(pk.node)
        /\ (pk.ret.getter = NoGetter /\ ~pk.ret.found) <=> (pk.empty \/ pk.node = hp.self)

====
